---- MODULE Spec2Model ----
(***************************************************************************)
(* Model of countergather (src/src/main.rs): load a query sketch, load the *)
(* sketches named by a matchlist, then repeatedly subtract the best        *)
(* matching sketch from the query and recompute the remaining containments *)
(* until no sketch matches any more.                                       *)
(*                                                                         *)
(* The 64-bit hash space is scaled down to 0..HashSpaceMax.  An Option is  *)
(* a sequence of length at most one; a Result is a record with an ok flag. *)
(* A BinaryHeap is the sequence that is its backing vector.  The num field *)
(* of a sketch is left out: every sketch here is a scaled sketch (num = 0).*)
(***************************************************************************)
EXTENDS Integers, Sequences, FiniteSets, TLC

\* Bounds of the model.
MaxHash == 2        \* generated sketches draw their hashes from 1..MaxHash
MaxMatchlist == 3   \* lines of a matchlist file

\* Program constants, scaled to the model's hash space.
HashSpaceMax == 63      \* u64::max_value()
TemplateScaled == 12    \* 100000_u64
TemplateKsize == 31
DefaultSeed == 42

None == <<>>
Some(x) == <<x>>

------------------------------------------------------------------------------
(* The sketch library, as far as main.rs calls it.                          *)

max_hash_for_scaled(scaled) ==
    IF scaled = 0 THEN 0
    ELSE IF scaled = 1 THEN HashSpaceMax
    ELSE HashSpaceMax \div scaled

scaled_for_max_hash(max_hash) ==
    IF max_hash = 0 THEN 0 ELSE HashSpaceMax \div max_hash

MinHash(ksize, hash_function, seed, max_hash, mins) ==
    [ksize |-> ksize, hash_function |-> hash_function, seed |-> seed,
     max_hash |-> max_hash, mins |-> mins]

scaled(mh) == scaled_for_max_hash(mh.max_hash)

\* KmerMinHash::check_compatible: the strict check, equal max_hash.
check_compatible(me, other) ==
    IF me.ksize # other.ksize THEN "MismatchKSizes"
    ELSE IF me.hash_function # other.hash_function THEN "MismatchDNAProt"
    ELSE IF me.max_hash # other.max_hash THEN "MismatchScaled"
    ELSE IF me.seed # other.seed THEN "MismatchSeed"
    ELSE "Ok"

\* KmerMinHash::downsample_max_hash: a new sketch built for the scaled value
\* of max_hash, holding the hashes of mh that the new sketch accepts.
downsample_max_hash(mh, max_hash) ==
    LET new_max == max_hash_for_scaled(scaled_for_max_hash(max_hash))
    IN  MinHash(mh.ksize, mh.hash_function, mh.seed, new_max,
                {h \in mh.mins : h <= new_max})

\* KmerMinHash::count_common(other, false).
count_common(me, other) ==
    IF check_compatible(me, other) = "Ok"
    THEN [ok |-> TRUE, val |-> Cardinality(me.mins \cap other.mins)]
    ELSE [ok |-> FALSE, val |-> 0]

\* KmerMinHash::remove_from: removes every hash of other from me.
remove_from(me, other) == [me EXCEPT !.mins = me.mins \ other.mins]

\* Signature::select_sketch: the first sketch strictly compatible with the
\* template.
select_sketch(sig, template) ==
    LET hits == {i \in 1..Len(sig.sketches) :
                    check_compatible(sig.sketches[i], template) = "Ok"}
    IN  IF hits = {} THEN None
        ELSE Some(sig.sketches[CHOOSE i \in hits : \A j \in hits : i <= j])

------------------------------------------------------------------------------
(* main.rs                                                                  *)

check_compatible_downsample_reversed(me, other) ==
    IF me.ksize # other.ksize THEN "MismatchKSizes"
    ELSE IF me.hash_function # other.hash_function THEN "MismatchDNAProt"
    ELSE IF me.max_hash > other.max_hash THEN "MismatchScaled"
    ELSE IF me.seed # other.seed THEN "MismatchSeed"
    ELSE "Ok"

check_compatible_downsample(me, other) ==
    IF me.ksize # other.ksize THEN "MismatchKSizes"
    ELSE IF me.hash_function # other.hash_function THEN "MismatchDNAProt"
    ELSE IF me.max_hash < other.max_hash THEN "MismatchScaled"
    ELSE IF me.seed # other.seed THEN "MismatchSeed"
    ELSE "Ok"

prepare_query_not_downsampled(search_sig, template) ==
    LET exact == select_sketch(search_sig, template)
        down == {i \in 1..Len(search_sig.sketches) :
                    check_compatible_downsample(search_sig.sketches[i], template) = "Ok"}
    IN  IF exact # None THEN exact
        ELSE IF down = {} THEN None
        ELSE Some(search_sig.sketches[CHOOSE i \in down : \A j \in down : i <= j])

prepare_query_scaled_as_cutoff(search_sig, template) ==
    LET exact == select_sketch(search_sig, template)
        down == {i \in 1..Len(search_sig.sketches) :
                    check_compatible_downsample(search_sig.sketches[i], template) = "Ok"}
    IN  IF exact # None THEN exact
        ELSE IF down = {} THEN None
        ELSE LET first == CHOOSE i \in down : \A j \in down : i <= j
             IN  Some(downsample_max_hash(search_sig.sketches[first], scaled(template)))

prepare_query(search_sig, template) ==
    LET exact == select_sketch(search_sig, template)
        down == {i \in 1..Len(search_sig.sketches) :
                    check_compatible_downsample(search_sig.sketches[i], template) = "Ok"}
    IN  IF exact # None THEN exact
        ELSE IF down = {} THEN None
        ELSE LET first == CHOOSE i \in down : \A j \in down : i <= j
             IN  Some(downsample_max_hash(search_sig.sketches[first],
                                          max_hash_for_scaled(scaled(template))))

PrefetchResult(id, name, minhash, containment) ==
    [id |-> id, name |-> name, minhash |-> minhash, containment |-> containment]

cmp_reversed(self, other) ==
    IF other.containment < self.containment THEN "Less"
    ELSE IF other.containment > self.containment THEN "Greater"
    ELSE "Equal"

cmp_always_equal(self, other) == "Equal"

cmp(self, other) ==
    IF self.containment < other.containment THEN "Less"
    ELSE IF self.containment > other.containment THEN "Greater"
    ELSE "Equal"

le(a, b) == cmp(a, b) \in {"Less", "Equal"}
ge(a, b) == cmp(a, b) \in {"Greater", "Equal"}
lt(a, b) == cmp(a, b) = "Less"

\* The template built at the top of do_countergather.
template_mh ==
    MinHash(TemplateKsize, "dna", DefaultSeed, max_hash_for_scaled(TemplateScaled), {})

------------------------------------------------------------------------------
(* std::collections::BinaryHeap over a vector, ordered by cmp.  Positions   *)
(* are 0-based as in the library; sequences are 1-based.                    *)

Swap(data, i, j) == [data EXCEPT ![i + 1] = data[j + 1], ![j + 1] = data[i + 1]]

RECURSIVE sift_down_range(_, _, _)
sift_down_range(data, pos, end) ==
    LET child == 2 * pos + 1
    IN  IF end >= 2 /\ child <= end - 2
        THEN LET c == IF le(data[child + 1], data[child + 2]) THEN child + 1 ELSE child
             IN  IF ge(data[pos + 1], data[c + 1]) THEN data
                 ELSE sift_down_range(Swap(data, pos, c), c, end)
        ELSE IF child = end - 1 /\ lt(data[pos + 1], data[child + 1])
             THEN Swap(data, pos, child)
             ELSE data

RECURSIVE rebuild(_, _)
rebuild(data, n) ==
    IF n = 0 THEN data
    ELSE rebuild(sift_down_range(data, n - 1, Len(data)), n - 1)

\* BinaryHeap::from(vec), which is what collect() into a BinaryHeap does with
\* the items in their original order.
BinaryHeapFrom(vec) == rebuild(vec, Len(vec) \div 2)

\* BinaryHeap::peek
peek(heap) == heap[1]

\* filter_map(..).collect::<Vec>(): the Some items, in order.
RECURSIVE FilterMap(_)
FilterMap(opts) ==
    IF opts = <<>> THEN <<>> ELSE Head(opts) \o FilterMap(Tail(opts))

------------------------------------------------------------------------------
(* main.rs, continued                                                       *)

\* Lines 215-219: the hashes of the heap's best element leave the query.
remove_best_last(query, heap) == remove_from(query, heap[Len(heap)].minhash)

remove_best(query, heap) == remove_from(query, peek(heap).minhash)

\* The closure of prefetch, for one item of the heap.
prefetch_item_keep_zero(query, result) ==
    LET containment == count_common(result.minhash, query)
    IN  IF containment.ok /\ containment.val >= 0
        THEN Some([result EXCEPT !.containment = containment.val])
        ELSE None

prefetch_item_own_size(query, result) ==
    LET containment == count_common(result.minhash, result.minhash)
    IN  IF containment.ok /\ containment.val > 0
        THEN Some([result EXCEPT !.containment = containment.val])
        ELSE None

prefetch_item_stale_test(query, result) ==
    LET containment == count_common(result.minhash, query)
    IN  IF containment.ok /\ result.containment > 0
        THEN Some([result EXCEPT !.containment = containment.val])
        ELSE None

prefetch_item_above_one(query, result) ==
    LET containment == count_common(result.minhash, query)
    IN  IF containment.ok /\ containment.val > 1
        THEN Some([result EXCEPT !.containment = containment.val])
        ELSE None

prefetch_item_stale_value(query, result) ==
    LET containment == count_common(result.minhash, query)
    IN  IF containment.ok /\ containment.val > 0
        THEN Some(result)
        ELSE None

prefetch_item(query, result) ==
    LET containment == count_common(result.minhash, query)
    IN  IF containment.ok /\ containment.val > 0
        THEN Some([result EXCEPT !.containment = containment.val])
        ELSE None

prefetch_not_filtered(query, sketchlist) ==
    BinaryHeapFrom([i \in 1..Len(sketchlist) |->
                       [sketchlist[i] EXCEPT
                           !.containment = count_common(sketchlist[i].minhash, query).val]])

prefetch(query, sketchlist) ==
    BinaryHeapFrom(FilterMap([i \in 1..Len(sketchlist) |->
                                 prefetch_item(query, sketchlist[i])]))

\* The query block of do_countergather: the sketch of the last signature of
\* the file that prepare_query accepts.
load_query(sigs) ==
    LET hits == {i \in 1..Len(sigs) : prepare_query(sigs[i], template_mh) # None}
    IN  IF hits = {} THEN None
        ELSE prepare_query(sigs[CHOOSE i \in hits : \A j \in hits : j <= i], template_mh)

\* The closure that loads one matchlist entry: the first signature of the file
\* whose prepared sketch has something in common with the query.
load_match_keep_zero(id, sigs, query) ==
    LET common(i) ==
            LET mh == prepare_query(sigs[i], template_mh)
            IN  IF mh = None THEN [ok |-> FALSE, val |-> 0]
                ELSE count_common(mh[1], query)
        hits == {i \in 1..Len(sigs) : common(i).ok /\ common(i).val >= 0}
    IN  IF hits = {} THEN None
        ELSE LET i == CHOOSE k \in hits : \A j \in hits : k <= j
             IN  Some(PrefetchResult(id, sigs[i].name,
                                     prepare_query(sigs[i], template_mh)[1],
                                     common(i).val))

load_match_sketch_size(id, sigs, query) ==
    LET common(i) ==
            LET mh == prepare_query(sigs[i], template_mh)
            IN  IF mh = None THEN [ok |-> FALSE, val |-> 0]
                ELSE count_common(mh[1], query)
        hits == {i \in 1..Len(sigs) : common(i).ok /\ common(i).val > 0}
    IN  IF hits = {} THEN None
        ELSE LET i == CHOOSE k \in hits : \A j \in hits : k <= j
             IN  Some(PrefetchResult(id, sigs[i].name,
                                     prepare_query(sigs[i], template_mh)[1],
                                     Cardinality(prepare_query(sigs[i], template_mh)[1].mins)))

load_match(id, sigs, query) ==
    LET common(i) ==
            LET mh == prepare_query(sigs[i], template_mh)
            IN  IF mh = None THEN [ok |-> FALSE, val |-> 0]
                ELSE count_common(mh[1], query)
        hits == {i \in 1..Len(sigs) : common(i).ok /\ common(i).val > 0}
    IN  IF hits = {} THEN None
        ELSE LET i == CHOOSE k \in hits : \A j \in hits : k <= j
             IN  Some(PrefetchResult(id, sigs[i].name,
                                     prepare_query(sigs[i], template_mh)[1],
                                     common(i).val))

------------------------------------------------------------------------------
(* The inputs: a query file and a matchlist file.  A file that cannot be    *)
(* opened or parsed is NoFile; Signature::from_path fails on it.            *)

Signature(name, sketches) == [name |-> name, sketches |-> sketches]
SigFile(sigs) == [exists |-> TRUE, sigs |-> sigs]
NoFile == [exists |-> FALSE, sigs |-> <<>>]

ExactSketch(mins) == [template_mh EXCEPT !.mins = mins]
FinerSketch(mins) == [template_mh EXCEPT !.max_hash = max_hash_for_scaled(6), !.mins = mins]
CoarserSketch(mins) == [template_mh EXCEPT !.max_hash = max_hash_for_scaled(16), !.mins = mins]
OtherKsizeSketch(mins) == [template_mh EXCEPT !.ksize = 21, !.mins = mins]

\* One signature with one sketch at the template's resolution, for every
\* set of hashes in 1..MaxHash.
GeneratedFiles ==
    {SigFile(<<Signature("sig", <<ExactSketch(m)>>)>>) : m \in SUBSET (1..MaxHash)}

FileQ == SigFile(<<Signature("Q", <<ExactSketch({1, 2, 3, 4, 5})>>)>>)
FileA == SigFile(<<Signature("A", <<ExactSketch({1, 2, 3})>>)>>)
FileB ==
    SigFile(<<Signature("B", <<OtherKsizeSketch({1, 2}), CoarserSketch({1, 2, 3}),
                               FinerSketch({3, 4, 5, 6})>>)>>)
FileKsize == SigFile(<<Signature("k21", <<OtherKsizeSketch({1, 2})>>)>>)
FileTwoSigs ==
    SigFile(<<Signature("M1", <<ExactSketch({1, 2})>>),
              Signature("M2", <<ExactSketch({2, 4, 5})>>)>>)

QueryFiles == GeneratedFiles \cup {NoFile, FileQ, FileKsize, FileTwoSigs}

Line(file) == [empty |-> FALSE, file |-> file]
BlankLine == [empty |-> TRUE, file |-> NoFile]
Lines ==
    {BlankLine} \cup
    {Line(f) : f \in GeneratedFiles \cup
                     {NoFile, FileA, FileB}}

SeqUpTo(S, n) == UNION {[1..k -> S] : k \in 0..n}

MatchlistFiles ==
    {[exists |-> FALSE, lines |-> <<>>]} \cup
    {[exists |-> TRUE, lines |-> l] : l \in SeqUpTo(Lines, MaxMatchlist)}

------------------------------------------------------------------------------
(* The run of do_countergather.                                             *)

VARIABLES
    query_file,         \* the file named by the first argument
    matchlist_file,     \* the file named by the second argument
    pc,                 \* "start", "matchlist", "gather", "prefetch", "workers", "exit"
    outcome,            \* "" while running, then "Ok", "Err" or "panic"
    query,              \* Option: the query sketch
    matching_sketches,  \* the heap of PrefetchResult
    stdout,             \* the lines printed
    selected,           \* history: the best_element of every round
    loaded,             \* history: the heap as the loader built it
    call,               \* the call of a function checked on its own
    par                 \* the parallel phase of prefetch, see Fork

vars == <<query_file, matchlist_file, pc, outcome, query, matching_sketches,
          stdout, selected, loaded, call, par>>

\* No parallel phase is open.
Idle == [pending |-> {}, results |-> <<>>, seen |-> <<>>]

Out(text, name, size, len) == [text |-> text, name |-> name, size |-> size, len |-> len]
Say(text) == Out(text, "", 0, 0)

Init ==
    /\ query_file \in QueryFiles
    /\ matchlist_file \in MatchlistFiles
    /\ pc = "start"
    /\ outcome = ""
    /\ query = None
    /\ matching_sketches = <<>>
    /\ stdout = <<>>
    /\ selected = <<>>
    /\ loaded = <<>>
    /\ par = Idle
    /\ call = None

Exit(how) == pc' = "exit" /\ outcome' = how

\* Lines 144-158: load the query; both unwraps panic.
LoadQuery ==
    /\ pc = "start"
    /\ stdout' = Append(stdout, Say("Loading query"))
    /\ IF query_file.exists /\ load_query(query_file.sigs) # None
       THEN /\ query' = load_query(query_file.sigs)
            /\ pc' = "matchlist"
            /\ UNCHANGED outcome
       ELSE /\ Exit("panic")
            /\ UNCHANGED query
    /\ UNCHANGED <<query_file, matchlist_file, matching_sketches, selected, loaded, call, par>>

\* Lines 164-177: the paths of the matchlist, blank lines skipped.
matchlist_paths(lines) == SelectSeq(lines, LAMBDA l : ~l.empty)

\* Lines 180-203: the heap collected from the loaded entries.
load_matchlist(paths, q) ==
    BinaryHeapFrom(FilterMap([i \in 1..Len(paths) |->
                                 load_match(i, paths[i].file.sigs, q)]))

\* Lines 160-210: open the matchlist (an error is returned), load every entry
\* (a file that does not load panics), leave when nothing matches.
LoadMatchlist ==
    /\ pc = "matchlist"
    /\ LET paths == matchlist_paths(matchlist_file.lines)
           matchlist == load_matchlist(paths, query[1])
       IN  IF ~matchlist_file.exists
           THEN /\ Exit("Err")
                /\ stdout' = Append(stdout, Say("Loading matchlist"))
                /\ UNCHANGED <<matching_sketches, loaded>>
           ELSE IF \E i \in 1..Len(paths) : ~paths[i].file.exists
           THEN /\ Exit("panic")
                /\ stdout' = Append(stdout, Say("Loading matchlist"))
                /\ UNCHANGED <<matching_sketches, loaded>>
           ELSE IF matchlist = <<>>
           THEN /\ Exit("Ok")
                /\ stdout' = stdout \o <<Say("Loading matchlist"),
                                         Say("No matchlist signatures loaded, exiting.")>>
                /\ UNCHANGED <<matching_sketches, loaded>>
           ELSE /\ pc' = "gather"
                /\ stdout' = Append(stdout, Say("Loading matchlist"))
                /\ matching_sketches' = matchlist
                /\ loaded' = matchlist
                /\ UNCHANGED outcome
    /\ UNCHANGED <<query_file, matchlist_file, query, selected, call, par>>

\* Lines 213-219: the head of a round; the best element's hashes leave the
\* query.
Subtract ==
    /\ pc = "gather"
    /\ matching_sketches # <<>>
    /\ LET best_element == peek(matching_sketches)
       IN  /\ stdout' = stdout \o
                  <<Out("remaining", "", Cardinality(query[1].mins), Len(matching_sketches)),
                    Out("removing", best_element.name, 0, 0)>>
           /\ query' = Some(remove_best(query[1], matching_sketches))
           /\ selected' = Append(selected, best_element)
    /\ pc' = "prefetch"
    /\ UNCHANGED <<query_file, matchlist_file, outcome, matching_sketches, loaded, call, par>>

\* Line 222 and the loop test of line 213.
Recompute ==
    /\ pc = "prefetch"
    /\ matching_sketches' = prefetch(query[1], matching_sketches)
    /\ IF matching_sketches' = <<>>
       THEN Exit("Ok")
       ELSE pc' = "gather" /\ UNCHANGED outcome
    /\ UNCHANGED <<query_file, matchlist_file, query, stdout, selected, loaded, call, par>>

Next == LoadQuery \/ LoadMatchlist \/ Subtract \/ Recompute

Spec == Init /\ [][Next]_vars

------------------------------------------------------------------------------
(* The recompute of a round, worker by worker.  prefetch hands the items of *)
(* the heap to rayon (into_par_iter), every item is worked on by some       *)
(* thread in any order, and collect returns to the driver when all items    *)
(* are done.  Recompute above is the whole of it in one step.               *)

\* Line 129: collect returns when no item is left to work on.
collect_returns_early(pending) == TRUE

collect_returns(pending) == pending = {}

\* Lines 112-113: the items of the heap are handed out.
Fork ==
    /\ pc = "prefetch"
    /\ pc' = "workers"
    /\ par' = [pending |-> 1..Len(matching_sketches),
               results |-> [i \in 1..Len(matching_sketches) |-> None],
               seen |-> [i \in 1..Len(matching_sketches) |-> None]]
    /\ UNCHANGED <<query_file, matchlist_file, outcome, query, matching_sketches,
                   stdout, selected, loaded, call>>

\* Lines 114-128: the closure runs on item i, reading the query through the
\* shared reference; seen records the query it read.
Worker(i) ==
    /\ i \in par.pending
    /\ par' = [pending |-> par.pending \ {i},
               results |-> [par.results EXCEPT ![i] = prefetch_item(query[1], matching_sketches[i])],
               seen |-> [par.seen EXCEPT ![i] = query]]
    /\ UNCHANGED <<query_file, matchlist_file, pc, outcome, query, matching_sketches,
                   stdout, selected, loaded, call>>

\* Line 129, line 222 and the loop test of line 213: the results are
\* collected into the new heap and the driver goes on.
Join ==
    /\ pc = "workers"
    /\ collect_returns(par.pending)
    /\ matching_sketches' = BinaryHeapFrom(FilterMap(par.results))
    /\ IF matching_sketches' = <<>>
       THEN Exit("Ok")
       ELSE pc' = "gather" /\ UNCHANGED outcome
    /\ UNCHANGED <<query_file, matchlist_file, query, stdout, selected, loaded, call, par>>

WorkerNext ==
    \/ LoadQuery
    \/ LoadMatchlist
    \/ Subtract
    \/ Fork
    \/ \E i \in 1..MaxMatchlist : Worker(i)
    \/ Join

WorkerSpec == Init /\ [][WorkerNext]_vars

------------------------------------------------------------------------------
(* Properties of the gather loop.                                           *)

Ids(heap) == {heap[i].id : i \in 1..Len(heap)}
Rounds == Len(selected)
AtLoopHead == pc \in {"gather", "exit"}
LastSelected == selected[Len(selected)]

\* C1: the gather loop ends with an empty heap after at most m rounds, m the
\* number of candidates loaded: the rounds run plus the candidates left never
\* exceed m, the loop is never stuck before its exit (at its head the heap is
\* not empty, which is all Subtract waits for; Recompute waits for nothing),
\* and it exits with Ok.
C1_TerminatesWithinM ==
    /\ AtLoopHead => Rounds + Len(matching_sketches) <= Len(loaded)
    /\ pc = "prefetch" => Rounds + Len(matching_sketches) <= Len(loaded) + 1
    /\ Rounds <= Len(loaded)
    /\ pc = "gather" => matching_sketches # <<>>
    /\ (pc = "exit" /\ loaded # <<>>) => (matching_sketches = <<>> /\ outcome = "Ok")

C1_Witness ==
    pc = "exit" /\ Len(loaded) = 3 /\ Rounds = 3

\* C2: a candidate selected in a round is in the heap of no later round, and
\* no candidate is selected twice.
C2_SelectionExclusive ==
    /\ AtLoopHead => \A i \in 1..Len(selected) : selected[i].id \notin Ids(matching_sketches)
    /\ \A i, j \in 1..Len(selected) : selected[i].id = selected[j].id => i = j

C2_Witness ==
    pc = "gather" /\ Rounds = 2 /\ Len(matching_sketches) = 1

\* C3: a candidate that is in the heap before and after a recompute has a
\* stored containment that did not grow.
C3_ContainmentMonotone ==
    [][\A i \in 1..Len(matching_sketches) : \A j \in 1..Len(matching_sketches') :
          matching_sketches[i].id = matching_sketches'[j].id
              => matching_sketches'[j].containment <= matching_sketches[i].containment]_vars

C3_Witness ==
    /\ pc = "gather"
    /\ Rounds >= 1
    /\ \E i \in 1..Len(matching_sketches) : \E j \in 1..Len(loaded) :
          /\ matching_sketches[i].id = loaded[j].id
          /\ matching_sketches[i].containment < loaded[j].containment

\* C4: the subtraction of a round leaves in the query exactly its former
\* hashes that are not hashes of the selected candidate, and no step ever adds
\* a hash to the query.
C4_SetDifference ==
    [][/\ (pc = "gather" /\ pc' = "prefetch") =>
              /\ query'[1].mins = query[1].mins \ selected'[Len(selected')].minhash.mins
              /\ query'[1].mins \cap selected'[Len(selected')].minhash.mins = {}
       /\ (query # None /\ query' # None) => query'[1].mins \subseteq query[1].mins]_vars

C4_Witness ==
    /\ pc = "prefetch"
    /\ query[1].mins # {}
    /\ Len(matching_sketches) >= 2
    /\ Cardinality(LastSelected.minhash.mins) > LastSelected.containment

\* C5: the candidate selected in a round has the greatest stored containment
\* of the heap of that round.
C5_SelectedIsMaximum ==
    /\ pc = "prefetch" =>
          \A i \in 1..Len(matching_sketches) :
              matching_sketches[i].containment <= LastSelected.containment
    /\ pc = "gather" =>
          \A i \in 1..Len(matching_sketches) :
              matching_sketches[i].containment <= peek(matching_sketches).containment

C5_Witness ==
    /\ pc = "prefetch"
    /\ Len(matching_sketches) = 3
    /\ LastSelected.id = 3
    /\ \E i \in 1..3 : matching_sketches[i].containment < LastSelected.containment

\* C6: when several candidates of a round share the greatest containment, the
\* one selected is the one loaded earliest.
C6_EarliestLoadedWins ==
    pc = "prefetch" =>
        \A i \in 1..Len(matching_sketches) :
            matching_sketches[i].containment = LastSelected.containment
                => LastSelected.id <= matching_sketches[i].id

\* The (name, containment) pairs of a sequence of candidates.
Results(s) == [i \in 1..Len(s) |-> <<s[i].name, s[i].containment>>]

ScenarioA ==
    /\ query_file = FileQ
    /\ matchlist_file = [exists |-> TRUE, lines |-> <<Line(FileA), Line(FileB)>>]

\* C7: with the query {1,2,3,4,5} and the matchlist A = {1,2,3}, B = {3,4,5,6}
\* (a finer sketch, downsampled to {3,4,5}),
\* round 1 selects A with containment 3 and leaves {4,5}, round 2 selects B
\* with containment 2 and leaves {}, and the run then ends with Ok after
\* exactly these two rounds.
C7_ScenarioA ==
    ScenarioA =>
        /\ Rounds <= 2
        /\ Rounds >= 1 => Results(SubSeq(selected, 1, 1)) = <<<<"A", 3>>>>
        /\ Rounds = 1 => query[1].mins = {4, 5}
        /\ Rounds = 2 => (Results(selected) = <<<<"A", 3>>, <<"B", 2>>>> /\ query[1].mins = {})
        /\ pc = "exit" => (outcome = "Ok" /\ Rounds = 2 /\ matching_sketches = <<>>)
        /\ pc \in {"gather", "prefetch"} => ENABLED Next

C7_Witness ==
    ScenarioA /\ pc = "exit" /\ Rounds = 2

\* The paths of the matchlist whose file does not load.
BadEntries ==
    {i \in 1..Len(matchlist_file.lines) :
        ~matchlist_file.lines[i].empty /\ ~matchlist_file.lines[i].file.exists}

QueryLoads == query_file.exists /\ load_query(query_file.sigs) # None

\* C8: a matchlist entry whose file does not load is skipped: the run still
\* ends with Ok, and its candidates are those of the matchlist without that
\* entry (so that its results are those of that matchlist).
C8_BadEntrySkipped ==
    (pc = "exit" /\ QueryLoads /\ matchlist_file.exists /\ BadEntries # {}) =>
        /\ outcome = "Ok"
        /\ Results(loaded) =
              Results(load_matchlist(
                  SelectSeq(matchlist_file.lines, LAMBDA l : ~l.empty /\ l.file.exists),
                  load_query(query_file.sigs)[1]))

\* No signature of any matchlist entry has a usable sketch with a hash of the
\* query.
NothingMatches ==
    /\ QueryLoads
    /\ matchlist_file.exists
    /\ BadEntries = {}
    /\ \A i \in 1..Len(matchlist_file.lines) :
          \A k \in 1..Len(matchlist_file.lines[i].file.sigs) :
              LET mh == prepare_query(matchlist_file.lines[i].file.sigs[k], template_mh)
              IN  \/ mh = None
                  \/ mh[1].mins \cap load_query(query_file.sigs)[1].mins = {}

\* C9: when the loader yields no candidate, the run says so, runs no round,
\* prints no selection, leaves the query as loaded and ends with Ok.
C9_EmptyResult ==
    (pc \in {"gather", "prefetch", "exit"} /\ NothingMatches) =>
        /\ pc = "exit"
        /\ pc = "exit" =>
              /\ outcome = "Ok"
              /\ stdout[Len(stdout)] = Say("No matchlist signatures loaded, exiting.")
              /\ \A i \in 1..Len(stdout) : stdout[i].text \notin {"remaining", "removing"}
              /\ selected = <<>>
              /\ loaded = <<>>
              /\ query = load_query(query_file.sigs)

C9_Witness ==
    /\ pc = "exit"
    /\ NothingMatches
    /\ matchlist_file.lines = <<>>

------------------------------------------------------------------------------
(* check_compatible_downsample on its own, over sketches that differ in     *)
(* every parameter it looks at.                                             *)

SketchParams ==
    {MinHash(k, hf, s, max_hash_for_scaled(sc), {}) :
        k \in {21, TemplateKsize}, hf \in {"dna", "protein"},
        s \in {DefaultSeed, 43}, sc \in {6, TemplateScaled, 16}}

CompatInit ==
    /\ query_file = NoFile
    /\ matchlist_file = [exists |-> FALSE, lines |-> <<>>]
    /\ pc = "call"
    /\ outcome = ""
    /\ query = None
    /\ matching_sketches = <<>>
    /\ stdout = <<>>
    /\ selected = <<>>
    /\ loaded = <<>>
    /\ par = Idle
    /\ call \in {Some([me |-> m, other |-> o, ret |-> ""]) : m, o \in SketchParams}

CallCompatible ==
    /\ pc = "call"
    /\ call' = Some([call[1] EXCEPT
                        !.ret = check_compatible_downsample(call[1].me, call[1].other)])
    /\ pc' = "returned"
    /\ UNCHANGED <<query_file, matchlist_file, outcome, query, matching_sketches,
                   stdout, selected, loaded, par>>

CompatNext == CallCompatible

CompatSpec == CompatInit /\ [][CompatNext]_vars

SameParameters(me, other) ==
    /\ me.ksize = other.ksize
    /\ me.hash_function = other.hash_function
    /\ me.seed = other.seed

\* C10, as stated: Ok exactly when ksize, hash function and seed are equal and
\* the candidate's max_hash is at least the template's; every coarser candidate
\* is rejected with MismatchScaled.
C10_CoarserIsMismatchScaled ==
    pc = "returned" =>
        LET me == call[1].me
            other == call[1].other
            ret == call[1].ret
        IN  /\ ret = "Ok" <=> (SameParameters(me, other) /\ me.max_hash >= other.max_hash)
            /\ me.max_hash < other.max_hash => ret = "MismatchScaled"

\* C10, amended: Ok exactly when ksize, hash function and seed are equal and
\* the candidate's max_hash is at least the template's; a coarser candidate is
\* always rejected, with MismatchScaled when its ksize and hash function are
\* the template's (those two checks come first, the seed check last).
C10_Directional ==
    pc = "returned" =>
        LET me == call[1].me
            other == call[1].other
            ret == call[1].ret
        IN  /\ ret = "Ok" <=> (SameParameters(me, other) /\ me.max_hash >= other.max_hash)
            /\ me.max_hash < other.max_hash => ret # "Ok"
            /\ (/\ me.max_hash < other.max_hash
                /\ me.ksize = other.ksize
                /\ me.hash_function = other.hash_function) => ret = "MismatchScaled"

C10_Witness ==
    /\ pc = "returned"
    /\ call[1].me.max_hash < call[1].other.max_hash
    /\ call[1].me.seed # call[1].other.seed
    /\ call[1].ret = "MismatchScaled"

------------------------------------------------------------------------------
(* prepare_query on its own, against the template of every scaled value of  *)
(* the hash space, for source sketches of several resolutions.              *)

\* The template do_countergather would build for a scaled value.
TemplateFor(scaled_value) ==
    [template_mh EXCEPT !.max_hash = max_hash_for_scaled(scaled_value)]

SourceSketches ==
    {MinHash(TemplateKsize, "dna", DefaultSeed, max_hash_for_scaled(r),
             {h \in 0..max_hash_for_scaled(r) : h % k = 0}) :
        r \in {1, 2, 3}, k \in {1, 2, 3}}

NormalizeInit ==
    /\ query_file = NoFile
    /\ matchlist_file = [exists |-> FALSE, lines |-> <<>>]
    /\ pc = "call"
    /\ outcome = ""
    /\ query = None
    /\ matching_sketches = <<>>
    /\ stdout = <<>>
    /\ selected = <<>>
    /\ loaded = <<>>
    /\ par = Idle
    /\ call \in {Some([scaled |-> s, sig |-> Signature("src", <<mh>>), ret |-> None]) :
                    s \in 1..HashSpaceMax, mh \in SourceSketches}

CallPrepareQuery ==
    /\ pc = "call"
    /\ call' = Some([call[1] EXCEPT
                        !.ret = prepare_query(call[1].sig, TemplateFor(call[1].scaled))])
    /\ pc' = "returned"
    /\ UNCHANGED <<query_file, matchlist_file, outcome, query, matching_sketches,
                   stdout, selected, loaded, par>>

NormalizeNext == CallPrepareQuery

NormalizeSpec == NormalizeInit /\ [][NormalizeNext]_vars

\* The call returned a sketch that select_sketch did not find: a downsampled
\* one.
Downsampled ==
    /\ pc = "returned"
    /\ select_sketch(call[1].sig, TemplateFor(call[1].scaled)) = None
    /\ call[1].ret # None

------------------------------------------------------------------------------
(* Further properties of the gather loop.                                   *)

\* The candidates of the heap that share no hash with the query.
ZeroContainment ==
    {i \in 1..Len(matching_sketches) :
        matching_sketches[i].minhash.mins \cap query[1].mins = {}}

\* C12: a candidate whose containment against the subtracted query is 0 is
\* not in the heap the recompute of that round leaves; a candidate that is
\* not in the heap is in no later heap (after loading, no step adds a
\* candidate to the heap); and every selection takes a candidate of the
\* current heap, so a dropped candidate is never selected or printed again.
C12_EvictionPermanent ==
    [][/\ pc = "prefetch" =>
              \A i \in ZeroContainment :
                  matching_sketches[i].id \notin Ids(matching_sketches')
       /\ pc \in {"gather", "prefetch"} =>
              Ids(matching_sketches') \subseteq Ids(matching_sketches)
       /\ selected' # selected =>
              /\ selected' = Append(selected, peek(matching_sketches))
              /\ stdout'[Len(stdout')].name = peek(matching_sketches).name]_vars

\* A candidate other than the selected one was dropped in the first round,
\* and a later round ran without it.
C12_Witness ==
    /\ pc = "prefetch"
    /\ Len(loaded) = 3
    /\ Rounds = 2
    /\ matching_sketches = <<selected[2]>>

\* What a line of the standard output shows after its text: the name for
\* line 218, the two numbers for line 214.
Printed(line) ==
    IF line.text = "removing" THEN <<line.name>>
    ELSE IF line.text = "remaining" THEN <<line.size, line.len>>
    ELSE <<>>

\* The result lines of the gather loop (line 218); line 214 prints a progress
\* line before each.
ResultLines == SelectSeq(stdout, LAMBDA l : l.text = "removing")

\* C13: the loop prints one result line per round run, in round order, and
\* the line of round i shows the name of the candidate selected in round i
\* and the containment it had when selected.
C13_OneResultPerRound ==
    /\ Len(ResultLines) = Rounds
    /\ \A i \in 1..Rounds :
          Printed(ResultLines[i]) = <<selected[i].name, selected[i].containment>>

\* What does hold of the printed lines: one "removing" line per round, in
\* round order, with the name of that round's candidate.
NamesInRoundOrder ==
    /\ Len(ResultLines) = Rounds
    /\ \A i \in 1..Rounds : Printed(ResultLines[i]) = <<selected[i].name>>

\* C14: the query changes only in steps of the driver taken while no worker
\* is forked and unfinished (loading it, or the subtraction at the head of a
\* round); unfinished workers exist only inside the parallel phase, and the
\* driver leaves that phase only when every worker of the round has finished;
\* a step of a worker leaves the query alone; and every worker of the round
\* has read the same query, the one the subtraction of that round left, so
\* the new heap is the recompute of the old one against that query.
C14_SingleWriter ==
    [][/\ query' # query =>
              /\ pc \in {"start", "gather"}
              /\ par.pending = {}
              /\ par' = par
       /\ par.pending # {} => pc = "workers"
       /\ par'.pending # par.pending => query' = query
       /\ (pc = "workers" /\ pc' # "workers") =>
              /\ par.pending = {}
              /\ Len(par.seen) = Len(matching_sketches)
              /\ \A i \in 1..Len(par.seen) :
                    /\ par.seen[i] = query
                    /\ par.seen[i][1].mins \cap LastSelected.minhash.mins = {}
              /\ matching_sketches' = prefetch(query[1], matching_sketches)]_vars

\* In the second round, one worker has finished and another has not.
C14_Witness ==
    /\ pc = "workers"
    /\ Rounds = 2
    /\ Len(par.seen) = 2
    /\ Cardinality(par.pending) = 1
    /\ \E i \in 1..2 : i \notin par.pending /\ par.seen[i] = query

\* The run ended by an error returned from do_countergather or by a panic;
\* the process exit code is then not 0.
Failure == pc = "exit" /\ outcome \in {"Err", "panic"}
Success == pc = "exit" /\ outcome = "Ok"
OpenFails == ~query_file.exists \/ ~matchlist_file.exists

\* What does hold of a query or matchlist file that cannot be opened: the run
\* fails before any round and prints no result line.
OpenFailureIsFatal ==
    (pc = "exit" /\ OpenFails) =>
        Failure /\ selected = <<>> /\ ResultLines = <<>> /\ loaded = <<>>

\* C15: a run whose query file or matchlist file cannot be opened ends in
\* failure, with no round run and no result printed; every other run that
\* ends, the one with nothing loaded from the matchlist included, ends in
\* success.
C15_FatalOnlyWhenOpenFails ==
    pc = "exit" =>
        /\ OpenFails => (Failure /\ selected = <<>> /\ ResultLines = <<>>)
        /\ ~OpenFails => Success

\* C17: at the head of every round the stored containment of every
\* candidate of the heap is the number of hashes it shares with the current
\* query, and is greater than 0.
C17_ContainmentConsistent ==
    pc = "gather" =>
        \A i \in 1..Len(matching_sketches) :
            /\ matching_sketches[i].containment =
                   Cardinality(matching_sketches[i].minhash.mins \cap query[1].mins)
            /\ matching_sketches[i].containment > 0

\* A loop head after a subtraction, with a candidate that has hashes the
\* query does not have.
C17_Witness ==
    /\ pc = "gather"
    /\ Rounds >= 1
    /\ \E i \in 1..Len(matching_sketches) :
          matching_sketches[i].containment < Cardinality(matching_sketches[i].minhash.mins)

\* C18: the containments at selection of successive rounds never grow.
C18_SelectionsNonIncreasing ==
    \A i \in 1..(Rounds - 1) : selected[i + 1].containment <= selected[i].containment

\* A second round whose selection has less containment than the first.
C18_Witness ==
    /\ Rounds >= 2
    /\ Len(loaded) = 3
    /\ selected[2].containment < selected[1].containment

\* The query as loaded, before any round.
InitialQuery == load_query(query_file.sigs)[1]
Done == pc = "exit" /\ loaded # <<>>

\* C19: when the loop has ended, the query shares no hash with the sketch of
\* any candidate the loader put into the heap, selected or dropped, and is
\* the loaded query without the hashes of the selected candidates.
C19_ResidualDisjoint ==
    Done =>
        /\ \A i \in 1..Len(loaded) : loaded[i].minhash.mins \cap query[1].mins = {}
        /\ query[1].mins =
              InitialQuery.mins \ UNION {selected[i].minhash.mins : i \in 1..Rounds}

\* The loop ended after two rounds or more with hashes left in the query and
\* a loaded candidate that was never selected.
C19_Witness ==
    /\ Done
    /\ Rounds >= 2
    /\ Rounds < Len(loaded)
    /\ query[1].mins # {}

RECURSIVE SumContainment(_)
SumContainment(results) ==
    IF results = <<>> THEN 0
    ELSE Head(results).containment + SumContainment(Tail(results))

\* C20: after any number of rounds, the containments at selection of the
\* rounds run add up to the number of hashes the query has lost since it was
\* loaded; so each round removes as many hashes as the containment of its
\* selection, and at the end the sum is |initial query| - |final query|.
C20_Accounting ==
    pc \in {"gather", "prefetch", "exit"} /\ query # None =>
        SumContainment(selected) =
            Cardinality(InitialQuery.mins) - Cardinality(query[1].mins)

\* The loop ended after two rounds or more, the selections differing in
\* containment, with hashes left in the query.
C20_Witness ==
    /\ Done
    /\ Rounds >= 2
    /\ selected[1].containment # selected[2].containment
    /\ query[1].mins # {}

------------------------------------------------------------------------------
(* The two loaders on the same file: the query block (lines 145-158) and    *)
(* the closure that loads a matchlist entry (lines 182-202).                *)

\* Files of two or three signatures, each with one sketch at the template's
\* resolution and at least one hash.
MultiSigFiles ==
    {SigFile([i \in 1..n |-> Signature(<<"s1", "s2", "s3">>[i], <<ExactSketch(m[i])>>)]) :
        n \in {2, 3}, m \in [1..3 -> (SUBSET (1..MaxHash)) \ {{}}]}
    \cup {FileTwoSigs}

LoaderInit ==
    /\ query_file \in MultiSigFiles
    /\ matchlist_file = [exists |-> FALSE, lines |-> <<>>]
    /\ pc = "call"
    /\ outcome = ""
    /\ query = None
    /\ matching_sketches = <<>>
    /\ stdout = <<>>
    /\ selected = <<>>
    /\ loaded = <<>>
    /\ par = Idle
    /\ call \in {Some([against |-> ExactSketch(q), as_query |-> None, as_match |-> None,
                       done |-> {}]) : q \in SUBSET (1..5)}

\* The file is loaded as the query.
CallLoadQuery ==
    /\ pc = "call"
    /\ "query" \notin call[1].done
    /\ call' = Some([call[1] EXCEPT !.as_query = load_query(query_file.sigs),
                                    !.done = @ \cup {"query"}])
    /\ pc' = IF call'[1].done = {"query", "match"} THEN "returned" ELSE "call"
    /\ UNCHANGED <<query_file, matchlist_file, outcome, query, matching_sketches,
                   stdout, selected, loaded, par>>

\* The file is loaded as an entry of the matchlist, against some query.
CallLoadMatch ==
    /\ pc = "call"
    /\ "match" \notin call[1].done
    /\ call' = Some([call[1] EXCEPT
                        !.as_match = load_match(1, query_file.sigs, call[1].against),
                        !.done = @ \cup {"match"}])
    /\ pc' = IF call'[1].done = {"query", "match"} THEN "returned" ELSE "call"
    /\ UNCHANGED <<query_file, matchlist_file, outcome, query, matching_sketches,
                   stdout, selected, loaded, par>>

LoaderNext == CallLoadQuery \/ CallLoadMatch

LoaderSpec == LoaderInit /\ [][LoaderNext]_vars

\* Every signature of the file yields a usable sketch, for either loader: it
\* passes prepare_query and shares a hash with the query it is matched to.
AllUsable ==
    \A i \in 1..Len(query_file.sigs) :
        /\ prepare_query(query_file.sigs[i], template_mh) # None
        /\ prepare_query(query_file.sigs[i], template_mh)[1].mins
               \cap call[1].against.mins # {}

\* C16: of a file whose signatures are all usable, the query loader and the
\* candidate loader pick the sketch of the same signature.
C16_SamePolicy ==
    (pc = "returned" /\ AllUsable) =>
        /\ call[1].as_query # None
        /\ call[1].as_match # None
        /\ call[1].as_query[1] = call[1].as_match[1].minhash

\* What the code does: the query loader keeps the last usable signature, the
\* candidate loader the first.
LastAndFirst ==
    (pc = "returned" /\ AllUsable) =>
        /\ call[1].as_query = prepare_query(query_file.sigs[Len(query_file.sigs)], template_mh)
        /\ call[1].as_match[1].minhash = prepare_query(query_file.sigs[1], template_mh)[1]

====
